---- MODULE Spec2Model ----
(***************************************************************************)
(* GoFund: a Fund (an integer balance) owned by a FundServer whose single  *)
(* goroutine `loop` ranges over the unbuffered channel `Commands` and      *)
(* dispatches WithdrawCommand / BalanceCommand values sent by callers.     *)
(*                                                                         *)
(* Channel operations follow the Go memory model: a send on an unbuffered  *)
(* channel completes together with the matching receive; a send on a       *)
(* closed channel panics; `range` over a closed channel terminates; a send *)
(* on a nil channel blocks forever; an unrecovered panic ends the process. *)
(* Arithmetic is modelled on the integers: the bounded amounts used here   *)
(* stay far away from the limits of Go's int.                              *)
(***************************************************************************)
EXTENDS Integers, Sequences, FiniteSets, TLC

\* ---------------------------------------------------------------- bounds
NumCallers == 2
MaxCmds == 3
MaxAmount == 1
MaxBenchN == 11
MaxParallel == 2

Callers == 1..NumCallers
\* amounts tried: a withdrawal and a negative one (a deposit)
Amounts == {-MaxAmount, MaxAmount}
\* initial balances tried: an empty fund and a funded one
Initials == {0, 100}

\* const WORKERS = 10
WORKERS == 10
Workers == 1..WORKERS
\* the benchmark's main goroutine
Main == 0
\* run sizes b.N tried: the largest skipped one and those up to MaxBenchN
BenchNs == (WORKERS - 1)..MaxBenchN

\* ------------------------------------------------------------- the state
VARIABLES
    initial,    \* the argument of NewFundServer
    balance,    \* Fund.balance
    closed,     \* TRUE once close(server.Commands) has been executed
    lpc,        \* position of the goroutine running FundServer.loop
    command,    \* loop's local `command`
    reply,      \* loop's local `balance` (the value read for a query)
    alive,      \* FALSE once an unrecovered panic has ended the process
    cpc,        \* position of every caller goroutine
    cmd,        \* the value a caller is sending / has last sent
    got,        \* the value a caller last received from a reply channel
    iter,       \* a benchmark worker's loop counter `i`
    tmp,        \* the balance a worker read inside `f.balance -= amount`
    begun,      \* history: commands in the order callers started to send
    accepted,   \* history: commands in the order the queue accepted them
    processed,  \* history: ids in the order the switch dispatched them
    completed,  \* history: ids whose loop iteration ran to its end
    replies,    \* history: <<[id, value]>> writes to reply channels
    received,   \* history: <<[id, caller, value]>> receives by callers
    quiet       \* history: queries begun when no Withdraw send was pending

server == <<initial, balance, closed, lpc, command, reply, alive>>
callers == <<cpc, cmd, got>>
locals == <<iter, tmp>>
history == <<begun, accepted, processed, completed, replies, received, quiet>>
vars == <<server, callers, locals, history>>

\* ------------------------------------------------------------ fund.go
NewFund(initialBalance) == initialBalance

Balance(f) == f

\* mutants of Withdraw: a sign slip, and a guard against negative amounts
WithdrawAdd(f, amount) == f + amount

WithdrawChecked(f, amount) == IF amount < 0 THEN f ELSE f - amount

\* mutants of Withdraw: the amount is taken twice; an overdraft is clamped
WithdrawTwice(f, amount) == f - 2 * amount

WithdrawClamped(f, amount) == IF f - amount < 0 THEN 0 ELSE f - amount

Withdraw(f, amount) == f - amount

\* ------------------------------------------------- the command values
NoChan == [ch |-> 0, kind |-> "none"]

WithdrawCommand(a) == [type |-> "WithdrawCommand", Amount |-> a, Response |-> NoChan]

BalanceCommand(r) == [type |-> "BalanceCommand", Amount |-> 0, Response |-> r]

\* any other value that fits `interface{}`
OtherValue == [type |-> "other", Amount |-> 0, Response |-> NoChan]

NoCommand == [id |-> 0, caller |-> 0, recv |-> FALSE, val |-> OtherValue]

\* what a caller does with a query: the channel it passes as Response
\* (make(chan int), as the benchmark does, or a channel it has closed) and
\* whether it goes on to receive from it.  A nil Response blocks the loop's
\* send exactly as an unbuffered channel nobody receives from does.
QueryShapes ==
    {[kind |-> "unbuffered", recv |-> r] : r \in BOOLEAN}
    \cup {[kind |-> "closed", recv |-> FALSE]}

\* ------------------------------------------------------------ helpers
RECURSIVE SumAmounts(_)
SumAmounts(s) ==
    IF s = <<>> THEN 0
    ELSE (IF Head(s).val.type = "WithdrawCommand" THEN Head(s).val.Amount ELSE 0)
         + SumAmounts(Tail(s))

RECURSIVE SelectBy(_, _)
SelectBy(s, c) ==
    IF s = <<>> THEN <<>>
    ELSE IF Head(s).caller = c THEN <<Head(s)>> \o SelectBy(Tail(s), c)
         ELSE SelectBy(Tail(s), c)

Ids(s) == [i \in 1..Len(s) |-> s[i].id]
IdSet(s) == {s[i].id : i \in 1..Len(s)}
IsPrefix(s, t) == Len(s) <= Len(t) /\ SubSeq(t, 1, Len(s)) = s
Pos(s, id) == CHOOSE i \in 1..Len(s) : s[i].id = id
WritesTo(id) == {i \in 1..Len(replies) : replies[i].id = id}
IsWithdraw(m) == m.val.type = "WithdrawCommand"
IsBalance(m) == m.val.type = "BalanceCommand"
InFlight == IdSet(accepted) \ completed

\* ------------------------------------------------------ NewFundServer
Init ==
    /\ initial \in Initials
    /\ balance = NewFund(initial)
    /\ closed = FALSE
    /\ lpc = "range"
    /\ command = NoCommand
    /\ reply = 0
    /\ alive = TRUE
    /\ cpc = [c \in Callers |-> "ready"]
    /\ cmd = [c \in Callers |-> NoCommand]
    /\ got = [c \in Callers |-> 0]
    /\ iter = [c \in Callers |-> 0]
    /\ tmp = [c \in Callers |-> 0]
    /\ begun = <<>>
    /\ accepted = <<>>
    /\ processed = <<>>
    /\ completed = {}
    /\ replies = <<>>
    /\ received = <<>>
    /\ quiet = {}

\* ------------------------------------------------------- the callers
\* Callers are interchangeable goroutines: their numbers are given in the
\* order of their first send, which leaves out no behaviour up to renaming.
FirstSendsInOrder(c) ==
    c = 1 \/ \E i \in 1..Len(begun) : begun[i].caller = c - 1

\* A caller arrives at `server.Commands <- v`.
Arrive(c, v, rcv) ==
    /\ LET id == Len(begun) + 1
           m == [id |-> id, caller |-> c, recv |-> rcv, val |-> v]
       IN /\ cmd' = [cmd EXCEPT ![c] = m]
          /\ begun' = Append(begun, m)
          /\ quiet' = IF v.type = "BalanceCommand"
                         /\ \A i \in 1..Len(begun) :
                               IsWithdraw(begun[i]) => begun[i].id \in IdSet(accepted)
                      THEN quiet \cup {id} ELSE quiet
    /\ cpc' = [cpc EXCEPT ![c] = "send"]
    /\ UNCHANGED <<server, got, accepted, processed, completed, replies, received>>

BeginSend(c, v, rcv) ==
    /\ alive
    /\ cpc[c] = "ready"
    /\ Len(begun) < MaxCmds
    /\ FirstSendsInOrder(c)
    /\ Arrive(c, v, rcv)
    /\ UNCHANGED locals

\* mutant: the caller calls fund.Withdraw itself instead of sending
DirectWithdraw(c) ==
    \E a \in Amounts :
        /\ alive
        /\ cpc[c] = "ready"
        /\ Len(begun) < MaxCmds
        /\ balance' = Withdraw(balance, a)
        /\ begun' = Append(begun, [id |-> Len(begun) + 1, caller |-> c,
                                   recv |-> FALSE, val |-> WithdrawCommand(a)])
        /\ UNCHANGED <<locals, initial, closed, lpc, command, reply, alive, callers,
                       accepted, processed, completed, replies, received, quiet>>

SendWithdraw(c) ==
    \E a \in Amounts : BeginSend(c, WithdrawCommand(a), FALSE)

SendBalance(c) ==
    \E q \in QueryShapes :
        BeginSend(c, BalanceCommand([ch |-> Len(begun) + 1, kind |-> q.kind]), q.recv)

\* the benchmark's query: a fresh make(chan int), sent and then received from
SendQuery(c) ==
    BeginSend(c, BalanceCommand([ch |-> Len(begun) + 1, kind |-> "unbuffered"]), TRUE)

SendOther(c) == BeginSend(c, OtherValue, FALSE)

\* close(server.Commands); closing a closed channel panics in the closer
CloseCommands(c) ==
    /\ alive
    /\ cpc[c] = "ready"
    /\ ~closed
    /\ closed' = TRUE
    /\ UNCHANGED <<locals, initial, balance, lpc, command, reply, alive, callers, history>>

\* mutant: a send on the closed channel is dropped and reported as done
SendOnClosedSilent(c) ==
    /\ alive
    /\ cpc[c] = "send"
    /\ closed
    /\ cpc' = [cpc EXCEPT ![c] = "ready"]
    /\ UNCHANGED <<locals, server, cmd, got, history>>

\* a send that finds (or is blocked on) the closed Commands channel panics;
\* the process survives only when the caller recovers
SendOnClosed(c) ==
    /\ alive
    /\ cpc[c] = "send"
    /\ closed
    /\ cpc' = [cpc EXCEPT ![c] = "failed"]
    /\ \E recovered \in BOOLEAN : alive' = recovered
    /\ UNCHANGED <<locals, initial, balance, closed, lpc, command, reply,
                   cmd, got, history>>

\* ------------------------------------------------- FundServer.loop
\* mutant: Commands has a buffer, the send completes while the loop is busy
LoopReceiveBuffered(c) ==
    /\ alive
    /\ ~closed
    /\ cpc[c] = "send"
    /\ command' = IF lpc = "range" THEN cmd[c] ELSE command
    /\ lpc' = IF lpc = "range" THEN "switch" ELSE lpc
    /\ accepted' = Append(accepted, cmd[c])
    /\ cpc' = [cpc EXCEPT ![c] = IF IsBalance(cmd[c]) /\ cmd[c].recv
                                 THEN "await" ELSE "ready"]
    /\ UNCHANGED <<locals, initial, balance, closed, reply, alive, cmd, got,
                   begun, processed, completed, replies, received, quiet>>

\* `for command := range s.Commands`: the rendezvous with caller c's send
LoopReceive(c) ==
    /\ alive
    /\ lpc = "range"
    /\ ~closed
    /\ cpc[c] = "send"
    /\ command' = cmd[c]
    /\ lpc' = "switch"
    /\ accepted' = Append(accepted, cmd[c])
    /\ cpc' = [cpc EXCEPT ![c] = IF IsBalance(cmd[c]) /\ cmd[c].recv
                                 THEN "await" ELSE "ready"]
    /\ UNCHANGED <<locals, initial, balance, closed, reply, alive, cmd, got,
                   begun, processed, completed, replies, received, quiet>>

\* mutants: the withdrawal is dispatched but not applied; the loop does not
\* move on to the next command
LoopWithdrawLost ==
    /\ alive
    /\ lpc = "switch"
    /\ command.val.type = "WithdrawCommand"
    /\ lpc' = "range"
    /\ processed' = Append(processed, command.id)
    /\ completed' = completed \cup {command.id}
    /\ UNCHANGED <<locals, initial, balance, closed, command, reply, alive, callers,
                   begun, accepted, replies, received, quiet>>

LoopWithdrawAgain ==
    /\ alive
    /\ lpc = "switch"
    /\ command.val.type = "WithdrawCommand"
    /\ balance' = Withdraw(balance, command.val.Amount)
    /\ processed' = Append(processed, command.id)
    /\ completed' = completed \cup {command.id}
    /\ UNCHANGED <<locals, initial, closed, lpc, command, reply, alive, callers,
                   begun, accepted, replies, received, quiet>>

\* case WithdrawCommand
LoopWithdraw ==
    /\ alive
    /\ lpc = "switch"
    /\ command.val.type = "WithdrawCommand"
    /\ balance' = Withdraw(balance, command.val.Amount)
    /\ lpc' = "range"
    /\ processed' = Append(processed, command.id)
    /\ completed' = completed \cup {command.id}
    /\ UNCHANGED <<locals, initial, closed, command, reply, alive, callers,
                   begun, accepted, replies, received, quiet>>

\* mutant: the balance is read but never sent
LoopBalanceNoReply ==
    /\ alive
    /\ lpc = "switch"
    /\ command.val.type = "BalanceCommand"
    /\ reply' = Balance(balance)
    /\ lpc' = "range"
    /\ processed' = Append(processed, command.id)
    /\ completed' = completed \cup {command.id}
    /\ UNCHANGED <<locals, initial, balance, closed, command, alive, callers,
                   begun, accepted, replies, received, quiet>>

\* mutants: the reply is left to another goroutine and the loop moves on;
\* reading the balance empties the fund; the first balance read is reused
LoopBalanceAsync ==
    /\ alive
    /\ lpc = "switch"
    /\ command.val.type = "BalanceCommand"
    /\ reply' = Balance(balance)
    /\ lpc' = "range"
    /\ processed' = Append(processed, command.id)
    /\ UNCHANGED <<locals, initial, balance, closed, command, alive, callers,
                   begun, accepted, completed, replies, received, quiet>>

LoopBalanceDrain ==
    /\ alive
    /\ lpc = "switch"
    /\ command.val.type = "BalanceCommand"
    /\ reply' = Balance(balance)
    /\ balance' = 0
    /\ lpc' = "send"
    /\ processed' = Append(processed, command.id)
    /\ UNCHANGED <<locals, initial, closed, command, alive, callers,
                   begun, accepted, completed, replies, received, quiet>>

LoopBalanceCached ==
    /\ alive
    /\ lpc = "switch"
    /\ command.val.type = "BalanceCommand"
    /\ reply' = IF replies = <<>> THEN Balance(balance) ELSE reply
    /\ lpc' = "send"
    /\ processed' = Append(processed, command.id)
    /\ UNCHANGED <<locals, initial, balance, closed, command, alive, callers,
                   begun, accepted, completed, replies, received, quiet>>

\* case BalanceCommand: balance := s.fund.Balance()
LoopBalance ==
    /\ alive
    /\ lpc = "switch"
    /\ command.val.type = "BalanceCommand"
    /\ reply' = Balance(balance)
    /\ lpc' = "send"
    /\ processed' = Append(processed, command.id)
    /\ UNCHANGED <<locals, initial, balance, closed, command, alive, callers,
                   begun, accepted, completed, replies, received, quiet>>

\* mutant: a reply nobody is waiting for is dropped (select with default)
LoopReplyNonBlocking(c) ==
    /\ alive
    /\ lpc = "send"
    /\ command.val.Response.kind = "unbuffered"
    /\ c = command.caller
    /\ IF cpc[c] = "await" /\ cmd[c].val.Response.ch = command.val.Response.ch
       THEN /\ replies' = Append(replies, [id |-> command.id, value |-> reply])
            /\ received' = Append(received, [id |-> cmd[c].id, caller |-> c, value |-> reply])
            /\ got' = [got EXCEPT ![c] = reply]
            /\ cpc' = [cpc EXCEPT ![c] = "ready"]
       ELSE UNCHANGED <<locals, replies, received, got, cpc>>
    /\ completed' = completed \cup {command.id}
    /\ lpc' = "range"
    /\ UNCHANGED <<locals, initial, balance, closed, command, reply, alive, cmd,
                   begun, accepted, processed, quiet>>

\* getBalance.Response <- balance: completes together with c's receive
LoopReplyUnbuffered(c) ==
    /\ alive
    /\ lpc = "send"
    /\ command.val.Response.kind = "unbuffered"
    /\ cpc[c] = "await"
    /\ cmd[c].val.Response.ch = command.val.Response.ch
    /\ replies' = Append(replies, [id |-> command.id, value |-> reply])
    /\ received' = Append(received, [id |-> cmd[c].id, caller |-> c, value |-> reply])
    /\ got' = [got EXCEPT ![c] = reply]
    /\ cpc' = [cpc EXCEPT ![c] = "ready"]
    /\ completed' = completed \cup {command.id}
    /\ lpc' = "range"
    /\ UNCHANGED <<locals, initial, balance, closed, command, reply, alive, cmd,
                   begun, accepted, processed, quiet>>

\* getBalance.Response <- balance on a closed channel: the loop panics
LoopReplyClosed ==
    /\ alive
    /\ lpc = "send"
    /\ command.val.Response.kind = "closed"
    /\ lpc' = "panicked"
    /\ alive' = FALSE
    /\ UNCHANGED <<locals, initial, balance, closed, command, reply, callers, history>>

\* mutant: an unrecognized value is skipped
LoopDefaultIgnore ==
    /\ alive
    /\ lpc = "switch"
    /\ command.val.type \notin {"WithdrawCommand", "BalanceCommand"}
    /\ lpc' = "range"
    /\ processed' = Append(processed, command.id)
    /\ completed' = completed \cup {command.id}
    /\ UNCHANGED <<locals, initial, balance, closed, command, reply, alive, callers,
                   begun, accepted, replies, received, quiet>>

\* default: panic(...)
LoopDefault ==
    /\ alive
    /\ lpc = "switch"
    /\ command.val.type \notin {"WithdrawCommand", "BalanceCommand"}
    /\ lpc' = "panicked"
    /\ alive' = FALSE
    /\ processed' = Append(processed, command.id)
    /\ UNCHANGED <<locals, initial, balance, closed, command, reply, callers,
                   begun, accepted, completed, replies, received, quiet>>

\* mutant: the loop returns although Commands is open
LoopExitEarly ==
    /\ alive
    /\ lpc = "range"
    /\ lpc' = "returned"
    /\ UNCHANGED <<locals, initial, balance, closed, command, reply, alive, callers, history>>

\* the range finds Commands closed: loop returns
LoopExit ==
    /\ alive
    /\ lpc = "range"
    /\ closed
    /\ lpc' = "returned"
    /\ UNCHANGED <<locals, initial, balance, closed, command, reply, alive, callers, history>>

Next ==
    \/ \E c \in Callers : SendWithdraw(c)
    \/ \E c \in Callers : SendBalance(c)
    \/ \E c \in Callers : SendOther(c)
    \/ \E c \in Callers : CloseCommands(c)
    \/ \E c \in Callers : SendOnClosed(c)
    \/ \E c \in Callers : LoopReceive(c)
    \/ LoopWithdraw
    \/ LoopBalance
    \/ \E c \in Callers : LoopReplyUnbuffered(c)
    \/ LoopReplyClosed
    \/ LoopDefault
    \/ LoopExit

Spec == Init /\ [][Next]_vars

\* Callers that keep to the protocol: Commands is never closed, only the two
\* command types are sent, and every query is followed by its receive.
NextLive ==
    \/ \E c \in Callers : SendWithdraw(c)
    \/ \E c \in Callers : SendQuery(c)
    \/ \E c \in Callers : LoopReceive(c)
    \/ LoopWithdraw
    \/ LoopBalance
    \/ \E c \in Callers : LoopReplyUnbuffered(c)

\* The loop goroutine is scheduled whenever it can run.  Senders blocked on
\* a channel wait in a FIFO queue, so a receiver that keeps coming back
\* serves every one of them.
Fairness ==
    /\ WF_vars(LoopWithdraw)
    /\ WF_vars(LoopBalance)
    /\ \A c \in Callers : WF_vars(LoopReplyUnbuffered(c))
    /\ \A c \in Callers : SF_vars(LoopReceive(c))

LiveSpec == Init /\ [][NextLive]_vars /\ Fairness

\* ------------------------------------------- BenchmarkWithdrawls
\* dollarsPerFounder := b.N / WORKERS
dollarsPerFounder == initial \div WORKERS

BenchInit ==
    /\ initial \in BenchNs
    /\ balance = NewFund(initial)
    /\ closed = FALSE
    /\ lpc = "range"
    /\ command = NoCommand
    /\ reply = 0
    /\ alive = TRUE
    /\ cpc = [c \in {Main} \cup Workers |-> IF c = Main THEN "start" ELSE "idle"]
    /\ cmd = [c \in {Main} \cup Workers |-> NoCommand]
    /\ got = [c \in {Main} \cup Workers |-> 0]
    /\ iter = [c \in {Main} \cup Workers |-> 0]
    /\ tmp = [c \in {Main} \cup Workers |-> 0]
    /\ begun = <<>>
    /\ accepted = <<>>
    /\ processed = <<>>
    /\ completed = {}
    /\ replies = <<>>
    /\ received = <<>>
    /\ quiet = {}

\* if b.N < WORKERS { return }
BenchSkip ==
    /\ cpc[Main] = "start"
    /\ initial < WORKERS
    /\ cpc' = [cpc EXCEPT ![Main] = "skipped"]
    /\ UNCHANGED <<server, cmd, got, locals, history>>

\* the loop of wg.Add(1); go func() {...}()
BenchSpawn ==
    /\ cpc[Main] = "start"
    /\ ~(initial < WORKERS)
    /\ cpc' = [c \in {Main} \cup Workers |-> IF c = Main THEN "wait" ELSE "ready"]
    /\ UNCHANGED <<server, cmd, got, locals, history>>

\* workers are interchangeable: they are numbered by their first iteration
FirstIterationsInOrder(w) == w = 1 \/ iter[w - 1] > 0

\* for i := 0; i < dollarsPerFounder; i++ { server.Commands <- WithdrawCommand{ Amount: 1 } }
BenchWorkerSend(w) ==
    /\ cpc[w] = "ready"
    /\ iter[w] < dollarsPerFounder
    /\ FirstIterationsInOrder(w)
    /\ iter' = [iter EXCEPT ![w] = @ + 1]
    /\ Arrive(w, WithdrawCommand(1), FALSE)
    /\ UNCHANGED tmp

\* the worker's loop ends: defer wg.Done()
BenchWorkerDone(w) ==
    /\ cpc[w] = "ready"
    /\ ~(iter[w] < dollarsPerFounder)
    /\ cpc' = [cpc EXCEPT ![w] = "done"]
    /\ UNCHANGED <<server, cmd, got, locals, history>>

\* wg.Wait() returns; server.Commands <- BalanceCommand{ Response: balanceResponseChan }
BenchQuery ==
    /\ cpc[Main] = "wait"
    /\ \A w \in Workers : cpc[w] = "done"
    /\ Arrive(Main, BalanceCommand([ch |-> Len(begun) + 1, kind |-> "unbuffered"]), TRUE)
    /\ UNCHANGED locals

\* if balance != 0 { b.Error(...) }
BenchCheck ==
    /\ cpc[Main] = "ready"
    /\ cpc' = [cpc EXCEPT ![Main] = IF got[Main] # 0 THEN "error" ELSE "pass"]
    /\ UNCHANGED <<server, cmd, got, locals, history>>

\* the loop's receive in the benchmark: the runtime keeps the senders blocked
\* on a channel in a FIFO queue, so the one that arrived first is served
BenchReceive(c) ==
    /\ \A d \in {Main} \cup Workers : cpc[d] = "send" => cmd[c].id <= cmd[d].id
    /\ LoopReceive(c)

BenchNext ==
    \/ BenchSkip
    \/ BenchSpawn
    \/ \E w \in Workers : BenchWorkerSend(w)
    \/ \E w \in Workers : BenchWorkerDone(w)
    \/ BenchQuery
    \/ \E c \in {Main} \cup Workers : BenchReceive(c)
    \/ LoopWithdraw
    \/ LoopBalance
    \/ LoopReplyUnbuffered(Main)
    \/ BenchCheck

BenchSpec == BenchInit /\ [][BenchNext]_vars

\* ------------------------- BenchmarkWithdrawls on the Fund itself
\* A worker runs from its first iteration until it is done; at most
\* MaxParallel of them are under way at the same time (GOMAXPROCS).
UnderWay == {v \in Workers : iter[v] > 0 /\ cpc[v] # "done"}

\* fund.Withdraw(1) without the server: `f.balance -= amount` reads ...
DirectRead(w) ==
    /\ cpc[w] = "ready"
    /\ iter[w] < dollarsPerFounder
    /\ FirstIterationsInOrder(w)
    /\ w \in UnderWay \/ Cardinality(UnderWay) < MaxParallel
    /\ iter' = [iter EXCEPT ![w] = @ + 1]
    /\ tmp' = [tmp EXCEPT ![w] = Balance(balance)]
    /\ cpc' = [cpc EXCEPT ![w] = "write"]
    /\ UNCHANGED <<server, cmd, got, history>>

\* ... and then writes, whatever the other workers did in between
DirectWrite(w) ==
    /\ cpc[w] = "write"
    /\ balance' = Withdraw(tmp[w], 1)
    /\ cpc' = [cpc EXCEPT ![w] = "ready"]
    /\ UNCHANGED <<initial, closed, lpc, command, reply, alive, cmd, got, locals, history>>

\* wg.Wait() returns; if fund.Balance() != 0 { b.Error(...) }
DirectCheck ==
    /\ cpc[Main] = "wait"
    /\ \A w \in Workers : cpc[w] = "done"
    /\ got' = [got EXCEPT ![Main] = Balance(balance)]
    /\ cpc' = [cpc EXCEPT ![Main] = IF Balance(balance) # 0 THEN "error" ELSE "pass"]
    /\ UNCHANGED <<server, cmd, locals, history>>

DirectNext ==
    \/ BenchSkip
    \/ BenchSpawn
    \/ \E w \in Workers : DirectRead(w)
    \/ \E w \in Workers : DirectWrite(w)
    \/ \E w \in Workers : BenchWorkerDone(w)
    \/ DirectCheck

DirectSpec == BenchInit /\ [][DirectNext]_vars

\* ====================================================================
\* Properties
\* ====================================================================
Running == alive /\ lpc \in {"range", "switch", "send"}
Stopped == ~Running
WithdrawsBegun == {i \in 1..Len(begun) : IsWithdraw(begun[i])}
ProcessedOf(c) == SelectSeq(processed, LAMBDA id : begun[id].caller = c)

\* C1 (serialization): a BalanceCommand submitted after the submits of all
\* Withdraw commands have returned, whichever callers made them, is
\* answered with exactly initial - (sum of all submitted amounts).
C1_Serialization ==
    \A i \in 1..Len(received) :
        (/\ received[i].id \in quiet
         /\ \A j \in WithdrawsBegun : j < received[i].id)
        => received[i].value = initial - SumAmounts(begun)

C1_Witness ==
    \E i \in 1..Len(received) :
        /\ received[i].id \in quiet
        /\ \A j \in WithdrawsBegun : j < received[i].id
        /\ \E j, k \in WithdrawsBegun :
              /\ begun[j].caller # begun[k].caller
              /\ begun[j].val.Amount + begun[k].val.Amount # 0

\* C2 (store isolation): every value written to a reply channel equals
\* initial minus the sum of exactly the Withdraws the queue accepted before
\* that BalanceCommand.
C2_StoreIsolation ==
    \A i \in 1..Len(replies) :
        /\ replies[i].id \in IdSet(accepted)
        /\ replies[i].value =
              initial - SumAmounts(SubSeq(accepted, 1, Pos(accepted, replies[i].id) - 1))

C2_Witness ==
    \E i \in 1..Len(replies) :
        LET p == Pos(accepted, replies[i].id)
        IN /\ \E j \in 1..(p - 1) : IsWithdraw(accepted[j])
           /\ \E j \in (p + 1)..Len(accepted) :
                 /\ IsWithdraw(accepted[j])
                 /\ accepted[j].id \in completed
                 /\ accepted[j].caller # accepted[p].caller

\* C3 (single accessor): at most one command is being processed at any
\* time, and every step that changes the balance is the dispatch loop's
\* Withdraw case acting on its current command; no caller step touches it.
C3_SingleAccessor ==
    /\ [](Cardinality(InFlight) <= 1)
    /\ [][balance' # balance =>
            /\ lpc = "switch" /\ lpc' = "range"
            /\ IsWithdraw(command)
            /\ balance' = balance - command.val.Amount
            /\ UNCHANGED callers]_vars

C3_Witness ==
    /\ lpc = "range"
    /\ balance # initial
    /\ Cardinality(completed) >= 1
    /\ \E c, d \in Callers : c # d /\ cpc[c] = "send" /\ cpc[d] = "send"

\* C4 (FIFO): the loop processes commands in exactly the order the queue
\* accepted them, none skipped or processed twice, and each caller's
\* commands in that caller's submit order.
C4_Fifo ==
    /\ IsPrefix(processed, Ids(accepted))
    /\ (Running /\ lpc = "range") => processed = Ids(accepted)
    /\ \A c \in Callers : IsPrefix(ProcessedOf(c), Ids(SelectBy(begun, c)))

C4_Witness ==
    /\ Len(processed) >= 3
    /\ \E i, j \in 1..Len(processed) :
          i < j /\ processed[i] > processed[j]

\* C5 (exactly one reply): every accepted BalanceCommand has at most one
\* write to its reply channel, exactly one once its processing has
\* finished, and nothing but an accepted BalanceCommand is ever answered.
C5_ExactlyOneReply ==
    /\ \A i \in 1..Len(accepted) :
          IsBalance(accepted[i]) =>
             /\ Cardinality(WritesTo(accepted[i].id)) <= 1
             /\ accepted[i].id \in completed =>
                   Cardinality(WritesTo(accepted[i].id)) = 1
    /\ \A i \in 1..Len(replies) :
          \E j \in 1..Len(accepted) :
             accepted[j].id = replies[i].id /\ IsBalance(accepted[j])

C5_Witness ==
    \E i, j \in 1..Len(accepted) :
        /\ i # j
        /\ IsBalance(accepted[i]) /\ IsBalance(accepted[j])
        /\ {accepted[i].id, accepted[j].id} \subseteq completed
        /\ accepted[i].caller # accepted[j].caller

\* C6 (single-caller arithmetic): when one caller alone has submitted
\* Withdraw{a1..an} and then a query, the value it receives is
\* initial - (a1 + ... + an), negative amounts and n = 0 included.
C6_SingleCaller ==
    \A c \in Callers :
        (\A i \in 1..Len(begun) : begun[i].caller = c) =>
            \A j \in 1..Len(received) :
                received[j].value =
                    initial - SumAmounts(SubSeq(begun, 1, received[j].id - 1))

C6_Witness ==
    \E c \in Callers :
        /\ \A i \in 1..Len(begun) : begun[i].caller = c
        /\ \E j \in 1..Len(received) :
              /\ received[j].id = Len(begun)
              /\ begun[1].val.Amount < 0
              /\ received[j].value > initial

\* C7 (rendezvous backpressure): the queue accepts a command only in a
\* step that starts with the loop waiting at its receive and nothing in
\* flight; at most one command is ever accepted and not fully processed.
C7_Backpressure ==
    /\ [][accepted' # accepted =>
            /\ lpc = "range"
            /\ InFlight = {}
            /\ Len(accepted') = Len(accepted) + 1]_vars
    /\ [](Len(accepted) - Cardinality(completed) <= 1)

C7_Witness ==
    /\ lpc = "send"
    /\ ~closed
    /\ InFlight # {}
    /\ \E c \in Callers : cpc[c] = "send"
    /\ Len(accepted) >= 2

\* C8 as stated (life cycle): the only transition is Running -> Stopped, it
\* is taken only when the command queue is closed, and it is terminal.
C8_OnlyOnClose ==
    [][/\ (Running /\ Stopped') => closed
       /\ Stopped => (Stopped' /\ balance' = balance /\ processed' = processed)]_vars

\* C8 (life cycle, amended): the actor is Running or Stopped; it leaves
\* Running only when the command queue is closed or when the loop panics;
\* once Stopped it processes no command, the balance never changes and it
\* never returns to Running.
C8_LifeCycle ==
    [][/\ (Running /\ Stopped') => (closed \/ lpc' = "panicked")
       /\ Stopped => (Stopped' /\ balance' = balance /\ processed' = processed
                      /\ accepted' = accepted /\ lpc' = lpc)]_vars

C8_Witness ==
    /\ lpc = "returned"
    /\ alive
    /\ balance # initial
    /\ \E c \in Callers : cpc[c] = "send"

\* C9 (protocol violation is fatal): a received value that is neither a
\* WithdrawCommand nor a BalanceCommand is the last command the queue ever
\* accepts and the loop ever dispatches; the loop panics on it and the
\* balance stays what the commands before it made it.
C9_ProtocolViolationFatal ==
    \A i \in 1..Len(accepted) :
        accepted[i].val.type \notin {"WithdrawCommand", "BalanceCommand"} =>
            /\ i = Len(accepted)
            /\ lpc \in {"switch", "panicked"}
            /\ lpc = "panicked" => (~alive /\ processed = Ids(accepted))
            /\ lpc = "switch" => processed = Ids(SubSeq(accepted, 1, i - 1))
            /\ balance = initial - SumAmounts(SubSeq(accepted, 1, i - 1))

C9_Witness ==
    /\ lpc = "panicked"
    /\ Len(accepted) >= 2
    /\ accepted[Len(accepted)].val.type = "other"
    /\ balance # initial
    /\ \E c \in Callers : cpc[c] = "send"

\* C10 (submit after close): once Commands is closed the queue accepts
\* nothing more; a caller sending on it can only end in a panic, and the
\* command of a caller that failed this way is never accepted, dispatched,
\* answered or applied to the balance.
C10_SubmitAfterClose ==
    /\ [][closed =>
            /\ accepted' = accepted
            /\ \A c \in Callers :
                  cpc[c] = "send" => cpc'[c] \in {"send", "failed"}]_vars
    /\ [](\A c \in Callers :
            cpc[c] = "failed" =>
               /\ closed
               /\ cmd[c].id \notin IdSet(accepted)
               /\ \A i \in 1..Len(processed) : processed[i] # cmd[c].id
               /\ WritesTo(cmd[c].id) = {}
               /\ lpc \in {"range", "returned"} =>
                     balance = initial - SumAmounts(accepted))

C10_Witness ==
    /\ lpc = "returned"
    /\ alive
    /\ balance # initial
    /\ \E c \in Callers : cpc[c] = "failed" /\ IsWithdraw(cmd[c])
    /\ \E c \in Callers : cpc[c] = "failed" /\ IsBalance(cmd[c])

\* C11 (accepted means applied exactly once): whenever the loop is idle the
\* balance is initial minus the amounts of all Withdraws accepted so far;
\* every accepted Withdraw is dispatched exactly once, or not yet when it
\* is the command in flight, and all commands accepted before the last one
\* are finished.
C11_AppliedOnce ==
    /\ lpc \in {"range", "returned"} => balance = initial - SumAmounts(accepted)
    /\ \A i \in 1..Len(accepted) :
          IsWithdraw(accepted[i]) =>
             /\ Cardinality({j \in 1..Len(processed) : processed[j] = accepted[i].id})
                   = IF accepted[i].id \in InFlight THEN 0 ELSE 1
             /\ i < Len(accepted) => accepted[i].id \in completed

C11_Witness ==
    /\ lpc = "range"
    /\ balance # initial
    /\ \E i, j \in 1..Len(accepted) :
          /\ IsWithdraw(accepted[i]) /\ IsWithdraw(accepted[j])
          /\ accepted[i].caller # accepted[j].caller
    /\ \E c \in Callers : cpc[c] = "send"

\* C13 (no overdraft policy): whenever the loop holds a WithdrawCommand it
\* can process it, and the step that dispatches it sets the balance to
\* balance - Amount and returns to the receive, also below zero.
C13_NoOverdraft ==
    /\ [][(processed' # processed /\ IsWithdraw(command)) =>
             /\ balance' = balance - command.val.Amount
             /\ lpc' = "range"
             /\ alive']_vars
    /\ []((alive /\ lpc = "switch" /\ IsWithdraw(command)) => ENABLED LoopWithdraw)

C13_Witness ==
    /\ initial = 0
    /\ balance < 0
    /\ \E i \in 1..Len(received) : received[i].value = -MaxAmount

\* C16 (reply before continue): the queue accepts a further command only
\* when every BalanceCommand accepted so far has had its reply written; a
\* loop blocked in the reply send holds the last accepted command.
C16_ReplyBeforeContinue ==
    /\ [][accepted' # accepted =>
            \A i \in 1..Len(accepted) :
               IsBalance(accepted[i]) => Cardinality(WritesTo(accepted[i].id)) = 1]_vars
    /\ [](lpc = "send" => /\ command = accepted[Len(accepted)]
                          /\ WritesTo(command.id) = {})

C16_Witness ==
    /\ Len(accepted) >= 3
    /\ IsBalance(accepted[1])
    /\ IsBalance(accepted[2])
    /\ accepted[1].caller # accepted[2].caller

\* C17 (query is a pure read): no step taken while the loop holds a
\* BalanceCommand changes the balance; two queries with no Withdraw
\* accepted between them are answered the same value, and a query accepted
\* before any Withdraw is answered the initial balance.
C17_PureRead ==
    /\ [][((lpc = "switch" /\ IsBalance(command)) \/ lpc = "send") =>
             balance' = balance]_vars
    /\ [](\A i, j \in 1..Len(replies) :
            LET pi == Pos(accepted, replies[i].id)
                pj == Pos(accepted, replies[j].id)
            IN /\ (pi < pj /\ \A k \in pi..pj : ~IsWithdraw(accepted[k]))
                     => replies[i].value = replies[j].value
               /\ (\A k \in 1..pi : ~IsWithdraw(accepted[k]))
                     => replies[i].value = initial)

C17_Witness ==
    /\ Len(replies) = 2
    /\ IsWithdraw(accepted[1])
    /\ replies[1].value = replies[2].value
    /\ replies[1].value # initial

\* C18 (reply routing): a reply is written only by the loop blocked in the
\* send of its current BalanceCommand, it carries that command's id and
\* value and goes to the caller that sent the command and to nobody else;
\* every value a caller receives is the one computed for its own query.
C18_ReplyRouting ==
    /\ [][replies' # replies =>
            /\ lpc = "send"
            /\ IsBalance(command)
            /\ replies' = Append(replies, [id |-> command.id, value |-> reply])
            /\ got'[command.caller] = reply
            /\ \A d \in Callers \ {command.caller} : got'[d] = got[d]]_vars
    /\ [](\A i \in 1..Len(received) :
            /\ received[i].caller = begun[received[i].id].caller
            /\ received[i].value =
                  initial - SumAmounts(SubSeq(accepted, 1,
                                              Pos(accepted, received[i].id) - 1)))

C18_Witness ==
    \E i, j \in 1..Len(received) :
        /\ received[i].caller # received[j].caller
        /\ received[i].value # received[j].value

\* the loop is blocked sending a reply that its caller will never receive
Stuck ==
    /\ lpc = "send"
    /\ command.val.Response.kind = "unbuffered"
    /\ ~command.recv

C14_Progress ==
    \A c \in Callers :
        /\ (cpc[c] = "send") ~> (cpc[c] # "send" /\ cmd[c].id \in IdSet(accepted))
        /\ (cpc[c] = "await") ~>
              (cpc[c] = "ready" /\ \E i \in 1..Len(received) : received[i].id = cmd[c].id)

C14_Witness ==
    \E c, d \in Callers :
        /\ c # d
        /\ cpc[c] = "await"
        /\ cpc[d] = "send"
        /\ lpc = "send"
        /\ Len(accepted) >= 2

\* C12 (the benchmark's assertion): when the benchmark has run to its
\* check, the balance it received is 0 and b.Error is not called.
C12_BenchmarkZero ==
    cpc[Main] \in {"pass", "error"} => (got[Main] = 0 /\ cpc[Main] = "pass")

\* C15 (lost update without the actor): when all workers have finished
\* their direct Withdraw calls, Balance() is never below initial - (total
\* withdrawn) and never above initial - 1: updates can get lost, never
\* doubled.  The witness is a run in which one is lost and the check fails.
C15_LostUpdate ==
    cpc[Main] \in {"pass", "error"} =>
        /\ got[Main] >= initial - WORKERS * dollarsPerFounder
        /\ got[Main] <= initial - 1
        /\ got[Main] = balance

C15_Witness ==
    /\ cpc[Main] = "error"
    /\ initial = WORKERS * dollarsPerFounder
    /\ got[Main] # initial - WORKERS * dollarsPerFounder
    /\ got[Main] # 0

====
